---- MODULE Spec2Model ----
(***************************************************************************)
(* Gmail -> Google Calendar confirmation-mail scheduler                    *)
(* (Joel_Swenson_gmail-gcal-interface-cli.py).                             *)
(*                                                                         *)
(* Text is modelled at character level: a Python str is a tuple of         *)
(* characters, each a string: a printable ASCII character, tab, line       *)
(* feed, form feed and carriage return are written as themselves ("a",     *)
(* "\t", "\n", "\f", "\r"); every other character is named by its Python    *)
(* escape, backslash included ("\\x0b", "\\xa0", "\\u0662", "\\U0001d7ce").   *)
(* Python's None is the empty tuple <<>> and a value v that may be None    *)
(* is carried as <<v>>.                                                    *)
(***************************************************************************)
EXTENDS Integers, Sequences, FiniteSets, TLC

(***************************************************************************)
(* Python built-ins used by the script: str.split, str.strip, the          *)
(* case-insensitive matching of strptime.                                  *)
(***************************************************************************)
\* the characters str.strip() removes and \s of a str pattern matches
\* (str.isspace(): the same set for both)
Whitespace ==
    { "\t", "\n", "\\x0b", "\f", "\r", "\\x1c", "\\x1d", "\\x1e",
      "\\x1f", " ", "\\x85", "\\xa0", "\\u1680", "\\u2000", "\\u2001",
      "\\u2002", "\\u2003", "\\u2004", "\\u2005", "\\u2006", "\\u2007",
      "\\u2008", "\\u2009", "\\u200a", "\\u2028", "\\u2029", "\\u202f",
      "\\u205f", "\\u3000" }

\* the decimal digits (\d of a str pattern; int() reads each by its value),
\* one row for each script, the digits 0 to 9 of the script in order
DecimalDigits ==
    << <<"0","1","2","3","4","5","6","7","8","9">>,
       <<"\\u0660","\\u0661","\\u0662","\\u0663","\\u0664","\\u0665","\\u0666","\\u0667","\\u0668","\\u0669">>,
       <<"\\u06f0","\\u06f1","\\u06f2","\\u06f3","\\u06f4","\\u06f5","\\u06f6","\\u06f7","\\u06f8","\\u06f9">>,
       <<"\\u07c0","\\u07c1","\\u07c2","\\u07c3","\\u07c4","\\u07c5","\\u07c6","\\u07c7","\\u07c8","\\u07c9">>,
       <<"\\u0966","\\u0967","\\u0968","\\u0969","\\u096a","\\u096b","\\u096c","\\u096d","\\u096e","\\u096f">>,
       <<"\\u09e6","\\u09e7","\\u09e8","\\u09e9","\\u09ea","\\u09eb","\\u09ec","\\u09ed","\\u09ee","\\u09ef">>,
       <<"\\u0a66","\\u0a67","\\u0a68","\\u0a69","\\u0a6a","\\u0a6b","\\u0a6c","\\u0a6d","\\u0a6e","\\u0a6f">>,
       <<"\\u0ae6","\\u0ae7","\\u0ae8","\\u0ae9","\\u0aea","\\u0aeb","\\u0aec","\\u0aed","\\u0aee","\\u0aef">>,
       <<"\\u0b66","\\u0b67","\\u0b68","\\u0b69","\\u0b6a","\\u0b6b","\\u0b6c","\\u0b6d","\\u0b6e","\\u0b6f">>,
       <<"\\u0be6","\\u0be7","\\u0be8","\\u0be9","\\u0bea","\\u0beb","\\u0bec","\\u0bed","\\u0bee","\\u0bef">>,
       <<"\\u0c66","\\u0c67","\\u0c68","\\u0c69","\\u0c6a","\\u0c6b","\\u0c6c","\\u0c6d","\\u0c6e","\\u0c6f">>,
       <<"\\u0ce6","\\u0ce7","\\u0ce8","\\u0ce9","\\u0cea","\\u0ceb","\\u0cec","\\u0ced","\\u0cee","\\u0cef">>,
       <<"\\u0d66","\\u0d67","\\u0d68","\\u0d69","\\u0d6a","\\u0d6b","\\u0d6c","\\u0d6d","\\u0d6e","\\u0d6f">>,
       <<"\\u0de6","\\u0de7","\\u0de8","\\u0de9","\\u0dea","\\u0deb","\\u0dec","\\u0ded","\\u0dee","\\u0def">>,
       <<"\\u0e50","\\u0e51","\\u0e52","\\u0e53","\\u0e54","\\u0e55","\\u0e56","\\u0e57","\\u0e58","\\u0e59">>,
       <<"\\u0ed0","\\u0ed1","\\u0ed2","\\u0ed3","\\u0ed4","\\u0ed5","\\u0ed6","\\u0ed7","\\u0ed8","\\u0ed9">>,
       <<"\\u0f20","\\u0f21","\\u0f22","\\u0f23","\\u0f24","\\u0f25","\\u0f26","\\u0f27","\\u0f28","\\u0f29">>,
       <<"\\u1040","\\u1041","\\u1042","\\u1043","\\u1044","\\u1045","\\u1046","\\u1047","\\u1048","\\u1049">>,
       <<"\\u1090","\\u1091","\\u1092","\\u1093","\\u1094","\\u1095","\\u1096","\\u1097","\\u1098","\\u1099">>,
       <<"\\u17e0","\\u17e1","\\u17e2","\\u17e3","\\u17e4","\\u17e5","\\u17e6","\\u17e7","\\u17e8","\\u17e9">>,
       <<"\\u1810","\\u1811","\\u1812","\\u1813","\\u1814","\\u1815","\\u1816","\\u1817","\\u1818","\\u1819">>,
       <<"\\u1946","\\u1947","\\u1948","\\u1949","\\u194a","\\u194b","\\u194c","\\u194d","\\u194e","\\u194f">>,
       <<"\\u19d0","\\u19d1","\\u19d2","\\u19d3","\\u19d4","\\u19d5","\\u19d6","\\u19d7","\\u19d8","\\u19d9">>,
       <<"\\u1a80","\\u1a81","\\u1a82","\\u1a83","\\u1a84","\\u1a85","\\u1a86","\\u1a87","\\u1a88","\\u1a89">>,
       <<"\\u1a90","\\u1a91","\\u1a92","\\u1a93","\\u1a94","\\u1a95","\\u1a96","\\u1a97","\\u1a98","\\u1a99">>,
       <<"\\u1b50","\\u1b51","\\u1b52","\\u1b53","\\u1b54","\\u1b55","\\u1b56","\\u1b57","\\u1b58","\\u1b59">>,
       <<"\\u1bb0","\\u1bb1","\\u1bb2","\\u1bb3","\\u1bb4","\\u1bb5","\\u1bb6","\\u1bb7","\\u1bb8","\\u1bb9">>,
       <<"\\u1c40","\\u1c41","\\u1c42","\\u1c43","\\u1c44","\\u1c45","\\u1c46","\\u1c47","\\u1c48","\\u1c49">>,
       <<"\\u1c50","\\u1c51","\\u1c52","\\u1c53","\\u1c54","\\u1c55","\\u1c56","\\u1c57","\\u1c58","\\u1c59">>,
       <<"\\ua620","\\ua621","\\ua622","\\ua623","\\ua624","\\ua625","\\ua626","\\ua627","\\ua628","\\ua629">>,
       <<"\\ua8d0","\\ua8d1","\\ua8d2","\\ua8d3","\\ua8d4","\\ua8d5","\\ua8d6","\\ua8d7","\\ua8d8","\\ua8d9">>,
       <<"\\ua900","\\ua901","\\ua902","\\ua903","\\ua904","\\ua905","\\ua906","\\ua907","\\ua908","\\ua909">>,
       <<"\\ua9d0","\\ua9d1","\\ua9d2","\\ua9d3","\\ua9d4","\\ua9d5","\\ua9d6","\\ua9d7","\\ua9d8","\\ua9d9">>,
       <<"\\ua9f0","\\ua9f1","\\ua9f2","\\ua9f3","\\ua9f4","\\ua9f5","\\ua9f6","\\ua9f7","\\ua9f8","\\ua9f9">>,
       <<"\\uaa50","\\uaa51","\\uaa52","\\uaa53","\\uaa54","\\uaa55","\\uaa56","\\uaa57","\\uaa58","\\uaa59">>,
       <<"\\uabf0","\\uabf1","\\uabf2","\\uabf3","\\uabf4","\\uabf5","\\uabf6","\\uabf7","\\uabf8","\\uabf9">>,
       <<"\\uff10","\\uff11","\\uff12","\\uff13","\\uff14","\\uff15","\\uff16","\\uff17","\\uff18","\\uff19">>,
       <<"\\U000104a0","\\U000104a1","\\U000104a2","\\U000104a3","\\U000104a4","\\U000104a5","\\U000104a6","\\U000104a7","\\U000104a8","\\U000104a9">>,
       <<"\\U00010d30","\\U00010d31","\\U00010d32","\\U00010d33","\\U00010d34","\\U00010d35","\\U00010d36","\\U00010d37","\\U00010d38","\\U00010d39">>,
       <<"\\U00011066","\\U00011067","\\U00011068","\\U00011069","\\U0001106a","\\U0001106b","\\U0001106c","\\U0001106d","\\U0001106e","\\U0001106f">>,
       <<"\\U000110f0","\\U000110f1","\\U000110f2","\\U000110f3","\\U000110f4","\\U000110f5","\\U000110f6","\\U000110f7","\\U000110f8","\\U000110f9">>,
       <<"\\U00011136","\\U00011137","\\U00011138","\\U00011139","\\U0001113a","\\U0001113b","\\U0001113c","\\U0001113d","\\U0001113e","\\U0001113f">>,
       <<"\\U000111d0","\\U000111d1","\\U000111d2","\\U000111d3","\\U000111d4","\\U000111d5","\\U000111d6","\\U000111d7","\\U000111d8","\\U000111d9">>,
       <<"\\U000112f0","\\U000112f1","\\U000112f2","\\U000112f3","\\U000112f4","\\U000112f5","\\U000112f6","\\U000112f7","\\U000112f8","\\U000112f9">>,
       <<"\\U00011450","\\U00011451","\\U00011452","\\U00011453","\\U00011454","\\U00011455","\\U00011456","\\U00011457","\\U00011458","\\U00011459">>,
       <<"\\U000114d0","\\U000114d1","\\U000114d2","\\U000114d3","\\U000114d4","\\U000114d5","\\U000114d6","\\U000114d7","\\U000114d8","\\U000114d9">>,
       <<"\\U00011650","\\U00011651","\\U00011652","\\U00011653","\\U00011654","\\U00011655","\\U00011656","\\U00011657","\\U00011658","\\U00011659">>,
       <<"\\U000116c0","\\U000116c1","\\U000116c2","\\U000116c3","\\U000116c4","\\U000116c5","\\U000116c6","\\U000116c7","\\U000116c8","\\U000116c9">>,
       <<"\\U00011730","\\U00011731","\\U00011732","\\U00011733","\\U00011734","\\U00011735","\\U00011736","\\U00011737","\\U00011738","\\U00011739">>,
       <<"\\U000118e0","\\U000118e1","\\U000118e2","\\U000118e3","\\U000118e4","\\U000118e5","\\U000118e6","\\U000118e7","\\U000118e8","\\U000118e9">>,
       <<"\\U00011950","\\U00011951","\\U00011952","\\U00011953","\\U00011954","\\U00011955","\\U00011956","\\U00011957","\\U00011958","\\U00011959">>,
       <<"\\U00011c50","\\U00011c51","\\U00011c52","\\U00011c53","\\U00011c54","\\U00011c55","\\U00011c56","\\U00011c57","\\U00011c58","\\U00011c59">>,
       <<"\\U00011d50","\\U00011d51","\\U00011d52","\\U00011d53","\\U00011d54","\\U00011d55","\\U00011d56","\\U00011d57","\\U00011d58","\\U00011d59">>,
       <<"\\U00011da0","\\U00011da1","\\U00011da2","\\U00011da3","\\U00011da4","\\U00011da5","\\U00011da6","\\U00011da7","\\U00011da8","\\U00011da9">>,
       <<"\\U00016a60","\\U00016a61","\\U00016a62","\\U00016a63","\\U00016a64","\\U00016a65","\\U00016a66","\\U00016a67","\\U00016a68","\\U00016a69">>,
       <<"\\U00016ac0","\\U00016ac1","\\U00016ac2","\\U00016ac3","\\U00016ac4","\\U00016ac5","\\U00016ac6","\\U00016ac7","\\U00016ac8","\\U00016ac9">>,
       <<"\\U00016b50","\\U00016b51","\\U00016b52","\\U00016b53","\\U00016b54","\\U00016b55","\\U00016b56","\\U00016b57","\\U00016b58","\\U00016b59">>,
       <<"\\U0001d7ce","\\U0001d7cf","\\U0001d7d0","\\U0001d7d1","\\U0001d7d2","\\U0001d7d3","\\U0001d7d4","\\U0001d7d5","\\U0001d7d6","\\U0001d7d7">>,
       <<"\\U0001d7d8","\\U0001d7d9","\\U0001d7da","\\U0001d7db","\\U0001d7dc","\\U0001d7dd","\\U0001d7de","\\U0001d7df","\\U0001d7e0","\\U0001d7e1">>,
       <<"\\U0001d7e2","\\U0001d7e3","\\U0001d7e4","\\U0001d7e5","\\U0001d7e6","\\U0001d7e7","\\U0001d7e8","\\U0001d7e9","\\U0001d7ea","\\U0001d7eb">>,
       <<"\\U0001d7ec","\\U0001d7ed","\\U0001d7ee","\\U0001d7ef","\\U0001d7f0","\\U0001d7f1","\\U0001d7f2","\\U0001d7f3","\\U0001d7f4","\\U0001d7f5">>,
       <<"\\U0001d7f6","\\U0001d7f7","\\U0001d7f8","\\U0001d7f9","\\U0001d7fa","\\U0001d7fb","\\U0001d7fc","\\U0001d7fd","\\U0001d7fe","\\U0001d7ff">>,
       <<"\\U0001e140","\\U0001e141","\\U0001e142","\\U0001e143","\\U0001e144","\\U0001e145","\\U0001e146","\\U0001e147","\\U0001e148","\\U0001e149">>,
       <<"\\U0001e2f0","\\U0001e2f1","\\U0001e2f2","\\U0001e2f3","\\U0001e2f4","\\U0001e2f5","\\U0001e2f6","\\U0001e2f7","\\U0001e2f8","\\U0001e2f9">>,
       <<"\\U0001e950","\\U0001e951","\\U0001e952","\\U0001e953","\\U0001e954","\\U0001e955","\\U0001e956","\\U0001e957","\\U0001e958","\\U0001e959">>,
       <<"\\U0001fbf0","\\U0001fbf1","\\U0001fbf2","\\U0001fbf3","\\U0001fbf4","\\U0001fbf5","\\U0001fbf6","\\U0001fbf7","\\U0001fbf8","\\U0001fbf9">> >>

\* the ASCII digits: [0-9] of a pattern, and the digits isoformat() writes
Digits == <<"0","1","2","3","4","5","6","7","8","9">>

UpperCase == <<"A","B","C","D","E","F","G","H","I","J","K","L","M","N","O","P","Q","R","S","T","U","V","W","X","Y","Z">>

LowerCase == <<"a","b","c","d","e","f","g","h","i","j","k","l","m","n","o","p","q","r","s","t","u","v","w","x","y","z">>

Range(f) == {f[i] : i \in DOMAIN f}

\* `name = value` of the source followed by the code Op that uses the name:
\* as in Python, the value is computed once, before the code that uses it
Bind(value, Op(_)) == CHOOSE result \in {Op(v) : v \in {value}} : TRUE

Max(S) == CHOOSE x \in S : \A y \in S : x >= y

Min(S) == CHOOSE x \in S : \A y \in S : x <= y

\* s[i:] of Python (1-based here)
Tail_from(s, i) == IF i > Len(s) THEN <<>> ELSE SubSeq(s, i, Len(s))

\* str.find: the first position >= 1 at which sep occurs in s, 0 when it does not
Find(s, sep) ==
    LET I == {i \in 1..(Len(s) - Len(sep) + 1) : SubSeq(s, i, i + Len(sep) - 1) = sep}
    IN IF I = {} THEN 0 ELSE Min(I)

\* every position at which sep occurs in s (overlapping occurrences included)
Occurrences(s, sep) ==
    {i \in 1..(Len(s) - Len(sep) + 1) : SubSeq(s, i, i + Len(sep) - 1) = sep}

RECURSIVE Split(_, _)
\* str.split(sep): left-to-right scan, occurrences taken without overlap
Split(s, sep) ==
    Bind(s, LAMBDA str : Bind(Find(str, sep), LAMBDA i :
        IF i = 0 THEN <<str>>
        ELSE <<SubSeq(str, 1, i - 1)>> \o Split(Tail_from(str, i + Len(sep)), sep)))

\* str.strip(): the text from its first to its last non-blank character
Strip(s) ==
    Bind({i \in 1..Len(s) : s[i] \notin Whitespace}, LAMBDA I :
        IF I = {} THEN <<>> ELSE SubSeq(s, Min(I), Max(I)))

Letters == Range(LowerCase) \cup Range(UpperCase)

DigitChars == UNION {Range(row) : row \in Range(DecimalDigits)}

\* str.lower() on one character
LowerOf == [c \in Range(UpperCase) |-> LowerCase[CHOOSE i \in 1..26 : UpperCase[i] = c]]

LowerChar(c) == IF c \in DOMAIN LowerOf THEN LowerOf[c] ELSE c

\* re.IGNORECASE of the strptime pattern: both sides compared in lower case
\* (a character outside A-Z that the pattern takes for a letter, as U+0130
\* for i, is refused by the lookup of the name in the locale's lists, where
\* it is lowered by str.lower(): the format fails as it does without a match)
CaseFold(s) == <<>> \o [i \in 1..Len(s) |-> LowerChar(s[i])]

DigitOf ==
    [c \in DigitChars |->
        (CHOOSE k \in 1..10 : \E row \in Range(DecimalDigits) : row[k] = c) - 1]

DigitVal(c) == DigitOf[c]

RECURSIVE ToIntUpTo(_, _)
\* the number written by the first n digits of s
ToIntUpTo(s, n) == IF n = 0 THEN 0 ELSE 10 * ToIntUpTo(s, n - 1) + DigitVal(s[n])

\* int() of a string of decimal digits
ToInt(s) == Bind(s, LAMBDA str : ToIntUpTo(str, Len(str)))

\* "%02d" / "%04d" formatting of a non-negative number
Pad(n, width) == [i \in 1..width |-> Digits[((n \div (10 ^ (width - i))) % 10) + 1]]

(***************************************************************************)
(* datetime: calendar arithmetic of the standard library (proleptic        *)
(* Gregorian ordinals, day 1 = 0001-01-01, a Monday).                      *)
(***************************************************************************)
is_leap(y) == y % 4 = 0 /\ (y % 100 # 0 \/ y % 400 = 0)

days_in_month(y, m) ==
    IF m = 2 THEN (IF is_leap(y) THEN 29 ELSE 28)
    ELSE IF m \in {4, 6, 9, 11} THEN 30 ELSE 31

days_before_year(y) ==
    (y - 1) * 365 + ((y - 1) \div 4) - ((y - 1) \div 100) + ((y - 1) \div 400)

\* _DAYS_BEFORE_MONTH of the datetime module
DAYS_BEFORE_MONTH == <<0, 31, 59, 90, 120, 151, 181, 212, 243, 273, 304, 334>>

days_before_month(y, m) ==
    DAYS_BEFORE_MONTH[m] + (IF m > 2 /\ is_leap(y) THEN 1 ELSE 0)

ymd2ord(y, m, d) == days_before_year(y) + days_before_month(y, m) + d

\* datetime.weekday(): Monday = 0 ... Sunday = 6
weekday(ord) == (ord + 6) % 7

ord2ymd(ord) ==
    Bind(ord - 1, LAMBDA n0 :
    LET n400 == n0 \div 146097
        r400 == n0 % 146097
        n100 == r400 \div 36524
        r100 == r400 % 36524
        n4   == r100 \div 1461
        r4   == r100 % 1461
        n1   == r4 \div 365
        n    == r4 % 365
        year == n400 * 400 + 1 + n100 * 100 + n4 * 4 + n1
        m    == CHOOSE k \in 1..12 :
                   /\ days_before_month(year, k) <= n
                   /\ n < days_before_month(year, k) + days_in_month(year, k)
    IN IF n1 = 4 \/ n100 = 4
       THEN [year |-> year - 1, month |-> 12, day |-> 31]
       ELSE [year |-> year, month |-> m, day |-> n - days_before_month(year, m) + 1])

\* a naive datetime as minutes of wall-clock time since ordinal 0, and back
wall(dt) ==
    Bind(dt, LAMBDA d :
        ymd2ord(d.year, d.month, d.day) * 1440 + d.hour * 60 + d.minute)

from_wall(w) ==
    Bind(w, LAMBDA minutes : Bind(ord2ymd(minutes \div 1440), LAMBDA ymd :
        [year |-> ymd.year, month |-> ymd.month, day |-> ymd.day,
         hour |-> (minutes % 1440) \div 60, minute |-> minutes % 60]))

\* datetime.isoformat() of a naive datetime whose seconds are 0
isoformat(dt) ==
    Bind(dt, LAMBDA d :
        Pad(d.year, 4) \o <<"-">> \o Pad(d.month, 2) \o <<"-">> \o Pad(d.day, 2)
            \o <<"T">> \o Pad(d.hour, 2) \o <<":">> \o Pad(d.minute, 2)
            \o <<":", "0", "0">>)

\* datetime.fromisoformat() on the YYYY-MM-DDTHH:MM:SS text isoformat() writes
fromisoformat(s) ==
    Bind(s, LAMBDA str :
        [year   |-> ToInt(SubSeq(str, 1, 4)),
         month  |-> ToInt(SubSeq(str, 6, 7)),
         day    |-> ToInt(SubSeq(str, 9, 10)),
         hour   |-> ToInt(SubSeq(str, 12, 13)),
         minute |-> ToInt(SubSeq(str, 15, 16))])

(***************************************************************************)
(* parse_event_time: datetime.strptime with the four accepted formats.     *)
(* A format "%A, %B %d, %Y %I:%M %p" compiles to a case-insensitive        *)
(* pattern  <day name>,\s+<month name>\s+<d>,\s+<Y>\s+<I>:<M>\s+<am|pm>   *)
(* that must consume the whole string.                                     *)
(***************************************************************************)
FullDays == <<<<"m","o","n","d","a","y">>, <<"t","u","e","s","d","a","y">>, <<"w","e","d","n","e","s","d","a","y">>, <<"t","h","u","r","s","d","a","y">>, <<"f","r","i","d","a","y">>, <<"s","a","t","u","r","d","a","y">>, <<"s","u","n","d","a","y">>>>

AbbrDays == <<<<"m","o","n">>, <<"t","u","e">>, <<"w","e","d">>, <<"t","h","u">>, <<"f","r","i">>, <<"s","a","t">>, <<"s","u","n">>>>

FullMonths == <<<<"j","a","n","u","a","r","y">>, <<"f","e","b","r","u","a","r","y">>, <<"m","a","r","c","h">>, <<"a","p","r","i","l">>, <<"m","a","y">>, <<"j","u","n","e">>, <<"j","u","l","y">>, <<"a","u","g","u","s","t">>, <<"s","e","p","t","e","m","b","e","r">>, <<"o","c","t","o","b","e","r">>, <<"n","o","v","e","m","b","e","r">>, <<"d","e","c","e","m","b","e","r">>>>

AbbrMonths == <<<<"j","a","n">>, <<"f","e","b">>, <<"m","a","r">>, <<"a","p","r">>, <<"m","a","y">>, <<"j","u","n">>, <<"j","u","l">>, <<"a","u","g">>, <<"s","e","p">>, <<"o","c","t">>, <<"n","o","v">>, <<"d","e","c">>>>

\* mutant: the two formats with an abbreviated month (%b) left out of the list
formats_full_month_only ==
    << [days |-> FullDays, months |-> FullMonths],
       [days |-> AbbrDays, months |-> FullMonths] >>

\* the list `formats` of parse_event_time, in its priority order:
\* %A/%a choose the day-name table, %B/%b the month-name table
formats ==
    << [days |-> FullDays, months |-> FullMonths],
       [days |-> FullDays, months |-> AbbrMonths],
       [days |-> AbbrDays, months |-> FullMonths],
       [days |-> AbbrDays, months |-> AbbrMonths] >>

\* character classes of the pattern: letters, digits, white space, and every
\* other character a class of its own
CharClass(c) ==
    IF c \in Letters THEN "alpha"
    ELSE IF c \in DigitChars THEN "digit"
    ELSE IF c \in Whitespace THEN "space"
    ELSE c

\* the positions at which a maximal run of letters, of digits or of white space
\* starts, or at which another character stands
TokenStarts(s) ==
    {i \in 1..Len(s) :
        \/ i = 1
        \/ CharClass(s[i]) \notin {"alpha", "digit", "space"}
        \/ CharClass(s[i]) # CharClass(s[i - 1])}

\* the string cut into those runs, in order (run_of[i]: the number of the run
\* the character at position i belongs to)
Tokens(s) ==
    Bind(s, LAMBDA str : Bind(TokenStarts(str), LAMBDA starts :
    Bind(<<>> \o [i \in 1..Len(str) |-> Cardinality({j \in starts : j <= i})],
         LAMBDA run_of :
        <<>> \o [k \in 1..Cardinality(starts) |->
                   Bind({i \in 1..Len(str) : run_of[i] = k}, LAMBDA I :
                       SubSeq(str, Min(I), Min(I) + Cardinality(I) - 1))])))

IsSpace(tok) == tok # <<>> /\ tok[1] \in Whitespace

IsNumber(tok) == tok # <<>> /\ tok[1] \in DigitChars

\* [1-9] of a pattern
NonZero == Range(Digits) \ {"0"}

\* the pattern of %d on a run of digits: 3[0-1]|[1-2]\d|0[1-9]|[1-9]
\* (its last alternative, a blank and [1-9], takes what \s+ [1-9] takes)
re_d(tok) ==
    \/ Len(tok) = 1 /\ tok[1] \in NonZero
    \/ /\ Len(tok) = 2
       /\ \/ tok[1] = "3" /\ tok[2] \in {"0", "1"}
          \/ tok[1] \in {"1", "2"} /\ tok[2] \in DigitChars
          \/ tok[1] = "0" /\ tok[2] \in NonZero

\* the pattern of %Y: \d\d\d\d
re_Y(tok) == Len(tok) = 4

\* the pattern of %I: 1[0-2]|0[1-9]|[1-9]
re_I(tok) ==
    \/ Len(tok) = 1 /\ tok[1] \in NonZero
    \/ /\ Len(tok) = 2
       /\ \/ tok[1] = "1" /\ tok[2] \in {"0", "1", "2"}
          \/ tok[1] = "0" /\ tok[2] \in NonZero

\* the pattern of %M: [0-5]\d|\d
re_M(tok) ==
    \/ Len(tok) = 1
    \/ Len(tok) = 2 /\ tok[1] \in {"0", "1", "2", "3", "4", "5"}

\* datetime.strptime(data_string, fmt) on the runs t of the case-folded string:
\* <<datetime>>, or <<>> for ValueError.  The pattern of a format is
\*   <name>,\s+<name>\s+<d>,\s+<Y>\s+<I>:<M>\s+<am|pm>
\* so the string must cut into exactly these fifteen runs.
strptime(t, fmt) ==
        IF Len(t) # 15 THEN <<>>
        ELSE
        LET d == ToInt(t[6])
            Y == ToInt(t[9])
            I == ToInt(t[11])
            M == ToInt(t[13])
            month == CHOOSE k \in 1..12 : fmt.months[k] = t[4]
            hour == IF t[15] = <<"p","m">> THEN (IF I = 12 THEN 12 ELSE I + 12)
                    ELSE (IF I = 12 THEN 0 ELSE I)
            matches ==
                /\ t[1] \in Range(fmt.days)                     \* %A or %a
                /\ t[2] = <<",">> /\ IsSpace(t[3])
                /\ t[4] \in Range(fmt.months)                   \* %B or %b
                /\ IsSpace(t[5])
                /\ IsNumber(t[6]) /\ re_d(t[6])                 \* %d
                /\ t[7] = <<",">> /\ IsSpace(t[8])
                /\ IsNumber(t[9]) /\ re_Y(t[9])                 \* %Y
                /\ IsSpace(t[10])
                /\ IsNumber(t[11]) /\ re_I(t[11])               \* %I
                /\ t[12] = <<":">>
                /\ IsNumber(t[13]) /\ re_M(t[13])               \* %M
                /\ IsSpace(t[14])
                /\ t[15] \in {<<"a","m">>, <<"p","m">>}         \* %p, nothing left over
        IN IF matches /\ Y >= 1 /\ d <= days_in_month(Y, month)
           THEN << [year |-> Y, month |-> month, day |-> d, hour |-> hour, minute |-> M] >>
           ELSE <<>>

RECURSIVE try_formats(_, _)
\* the `for fmt in formats` loop: the first format that parses wins
try_formats(t, k) ==
    IF k > Len(formats) THEN <<>>
    ELSE Bind(strptime(t, formats[k]), LAMBDA parsed :
            IF parsed # <<>> THEN parsed ELSE try_formats(t, k + 1))

parse_event_time(event_time_str) ==
    Bind(Tokens(CaseFold(event_time_str)), LAMBDA t : try_formats(t, 1))

(***************************************************************************)
(* extract_event_details.  `err` records which error line the function     *)
(* prints before it returns None; the value returned to the caller is      *)
(* `details`: <<>> (None) or <<[event_name, event_time]>>.                 *)
(***************************************************************************)
Marker == <<"R","e","g","i","s","t","r","a","t","i","o","n"," ","C","o","n","f","i","r","m","a","t","i","o","n",":"," ">>

Separator == <<" ","o","n"," ">>

\* the `for header in msg['payload']['headers']` loop: first Subject header
find_subject(msg) ==
    LET I == {i \in 1..Len(msg.headers) : msg.headers[i].name = "Subject"}
    IN IF I = {} THEN <<>> ELSE <<msg.headers[Min(I)].value>>

Failure(err) ==
    [err |-> err, gcal_event_name |-> <<>>, gcal_event_time |-> <<>>, details |-> <<>>]

\* mutant: `len(event_details) < 2` in place of `!= 2`
has_one_separator_lax(event_details) == Len(event_details) >= 2

\* line 197, negated: the text splits on " on " into exactly two parts
has_one_separator(event_details) == Len(event_details) = 2

extract_event_details(msg) ==
    Bind(find_subject(msg), LAMBDA found :
    IF found = <<>> \/ found[1] = <<>> THEN Failure("NoSubject")
    ELSE
    Bind(Split(found[1], Marker), LAMBDA split_subject :
    IF ~(Len(split_subject) > 1) THEN Failure("NoMarker")
    ELSE
    Bind(Split(split_subject[2], Separator), LAMBDA event_details :
    IF ~has_one_separator(event_details) THEN Failure("NoSeparator")
    ELSE
    Bind(parse_event_time(Strip(event_details[2])), LAMBDA event_time_obj :
    LET gcal_event_name == Strip(event_details[1])
        gcal_event_time == Strip(event_details[2])
    IN IF event_time_obj = <<>>
       THEN [err |-> "ParseFailure", gcal_event_name |-> gcal_event_name,
             gcal_event_time |-> gcal_event_time, details |-> <<>>]
       ELSE [err |-> "none", gcal_event_name |-> gcal_event_name,
             gcal_event_time |-> gcal_event_time,
             details |-> << [event_name |-> gcal_event_name,
                             event_time |-> isoformat(event_time_obj[1])] >>]))))

(***************************************************************************)
(* Time zones.  An aware datetime is [wall, utcoffset]: its wall-clock     *)
(* minutes since ordinal 0 and the offset of its tzinfo in minutes.        *)
(* America/Chicago follows the rule in force since 2007: daylight time     *)
(* from 02:00 on the second Sunday of March to 02:00 on the first Sunday   *)
(* of November (the model's dates are taken from those years).             *)
(***************************************************************************)
first_sunday(y, m) ==
    Bind(ymd2ord(y, m, 1), LAMBDA o : o + ((6 - weekday(o)) % 7))

\* wall-clock minute (standard time) at which daylight time starts in year y
dst_start(y) == (first_sunday(y, 3) + 7) * 1440 + 120

\* wall-clock minute (daylight time) at which daylight time ends in year y
dst_end(y) == first_sunday(y, 11) * 1440 + 120

\* pytz.timezone('America/Chicago').fromutc: the offset in force at UTC minute u
chicago_utcoffset(u) ==
    Bind(ord2ymd(u \div 1440).year, LAMBDA y :
        IF u >= dst_start(y) + 360 /\ u < dst_end(y) + 300 THEN -300 ELSE -360)

\* time zones the host machine may be set to
HostZones == {"UTC", "America/Chicago", "Asia/Kolkata"}

\* datetime._local_timezone: the host's offset for a naive wall-clock minute w
\* (fold = 0: a time in the spring gap is read with the daylight offset,
\* a time in the autumn overlap as its first occurrence)
local_utcoffset(host, w) ==
    IF host = "UTC" THEN 0
    ELSE IF host = "Asia/Kolkata" THEN 330
    ELSE Bind(ord2ymd(w \div 1440).year, LAMBDA y :
            IF w >= dst_start(y) /\ w < dst_end(y) THEN -300 ELSE -360)

\* naive.astimezone(chicago_tz): the naive value is read as host-local time
astimezone(dt, host) ==
    Bind(wall(dt), LAMBDA w :
    Bind(w - local_utcoffset(host, w), LAMBDA u :
    Bind(chicago_utcoffset(u), LAMBDA offset :
        [wall |-> u + offset, utcoffset |-> offset])))

\* mutant: timedelta(minutes=1) in place of timedelta(hours=1)
end_time_obj_minutes(start_time_obj) ==
    [wall |-> start_time_obj.wall + 1, utcoffset |-> start_time_obj.utcoffset]

\* start_time_obj + timedelta(hours=1): wall-clock addition, tzinfo kept
end_time_obj(start_time_obj) ==
    [wall |-> start_time_obj.wall + 60, utcoffset |-> start_time_obj.utcoffset]

Abs(n) == IF n < 0 THEN -n ELSE n

\* isoformat() of an aware datetime: YYYY-MM-DDTHH:MM:SS+HH:MM
isoformat_aware(a) ==
    Bind(a, LAMBDA d :
        isoformat(from_wall(d.wall))
            \o <<IF d.utcoffset < 0 THEN "-" ELSE "+">>
            \o Pad(Abs(d.utcoffset) \div 60, 2) \o <<":">> \o Pad(Abs(d.utcoffset) % 60, 2))

\* the instant (UTC minute) an RFC 3339 text denotes, as the calendar reads it
rfc3339_instant(s) ==
    Bind(s, LAMBDA str :
    Bind(ToInt(SubSeq(str, 21, 22)) * 60 + ToInt(SubSeq(str, 24, 25)), LAMBDA off :
        wall(fromisoformat(SubSeq(str, 1, 19))) - (IF str[20] = "-" THEN -off ELSE off)))

\* lines 261-269 of create_calendar_event: the window of the event
event_window(event_details, host) ==
    Bind(astimezone(fromisoformat(event_details.event_time), host), LAMBDA start_time_obj :
        [start_time_iso |-> isoformat_aware(start_time_obj),
         end_time_iso   |-> isoformat_aware(end_time_obj(start_time_obj))])

(***************************************************************************)
(* The program as a state machine.  One run of main() is a process; its    *)
(* steps are the calls it makes to the mail and calendar services, each    *)
(* with the local code that follows it up to the next call.                *)
(***************************************************************************)
\* number of messages the mail search can match
MaxMailbox == 2

\* number of times the program is run, one run after another, against the
\* same calendar
MaxRuns == 2

\* the program, and a second copy of it started on its own (section 5's
\* "second run of this system")
Programs == {1, 2}

VARIABLES
    hostTz,        \* time zone the host machine is set to
    mailbox,       \* the messages matching the query, in the order list returns them
    max_messages,  \* --max_messages
    calendar,      \* the primary calendar: the events inserted, in insertion order
    run,           \* run[p]: the state of the current run of main() of program p
    subject,       \* SpecExtract: the subject line handed to extract_event_details
    extracted      \* SpecExtract: <<>> or <<result of extraction, window>>

vars == <<hostTz, mailbox, max_messages, calendar, run, subject, extracted>>

Message(subject_line) ==
    [headers |-> << [name |-> "From", value |-> <<"x">>],
                    [name |-> "Subject", value |-> subject_line] >>]

Yoga == <<"Y","o","g","a">>

Kids == <<"K","i","d","s">>

SatFull == <<"S","a","t","u","r","d","a","y",","," ","J","a","n","u","a","r","y"," ","1","1",","," ","2","0","2","5"," ","9",":","0","0"," ","A","M">>

SatAbbr == <<"S","a","t",","," ","J","a","n"," ","1","1",","," ","2","0","2","5"," ","9",":","0","0"," ","A","M">>

SatHalf == <<"S","a","t","u","r","d","a","y",","," ","J","a","n","u","a","r","y"," ","1","1",","," ","2","0","2","5"," ","9",":","3","0"," ","A","M">>

\* messages a mailbox of the run specifications is filled from: the same event
\* written in two accepted formats, an overlapping event of another name, and
\* a subject without the separator
MessagePool ==
    { Message(Marker \o Yoga \o Separator \o SatFull),
      Message(Marker \o Yoga \o Separator \o SatAbbr),
      Message(Marker \o Kids \o Separator \o SatHalf),
      Message(Marker \o <<"A","d","v","a","n","c","e","d"," ","C","l","a","s","s">>) }

RECURSIVE SeqsUpTo(_, _)
SeqsUpTo(S, n) ==
    IF n = 0 THEN {<<>>}
    ELSE SeqsUpTo(S, n - 1) \cup
         {Append(q, x) : q \in {z \in SeqsUpTo(S, n - 1) : Len(z) = n - 1}, x \in S}

\* what a call to a service can do: return, raise HttpError, raise anything else
CallOutcomes == {"ok", "HttpError", "Exception"}

\* authenticate_gmail_and_calendar: returns the services, calls sys.exit(1),
\* or lets another exception through
AuthOutcomes == {"ok", "SystemExit", "Exception"}

NotStarted ==
    [run_no |-> 1, pc |-> "start", messages |-> <<>>, i |-> 0, events_created |-> 0,
     event_details |-> <<>>, query |-> <<>>,
     list_calls |-> 0, called |-> {},
     exit |-> "none", summary |-> <<>>]

RunInit ==
    /\ hostTz \in HostZones
    /\ mailbox \in SeqsUpTo(MessagePool, MaxMailbox)
    /\ max_messages \in 0..MaxMailbox
    /\ calendar = <<>>
    /\ run = [r \in Programs |-> NotStarted]

Init ==
    /\ RunInit
    /\ subject = <<>>
    /\ extracted = <<>>

\* mutant: the summary line printed on the early exits as well
terminate_with_summary(rec, how) ==
    [rec EXCEPT !.pc = "done", !.exit = how, !.summary = <<rec.events_created>>]

\* main() leaves through `return`, the outer `except Exception`, or sys.exit
terminate(rec, how) == [rec EXCEPT !.pc = "done", !.exit = how]

\* line 331, after the for loop: the summary line with the count
report(rec) ==
    [rec EXCEPT !.pc = "done", !.exit = "completed", !.summary = <<rec.events_created>>]

\* the end of one iteration of `for message in messages`
next_message(rec) ==
    IF rec.i + 1 > Len(rec.messages)
    THEN report([rec EXCEPT !.i = rec.i + 1, !.event_details = <<>>, !.query = <<>>])
    ELSE [rec EXCEPT !.i = rec.i + 1, !.event_details = <<>>, !.query = <<>>, !.pc = "fetch"]

\* line 312
authenticate_gmail_and_calendar(r) ==
    /\ run[r].pc = "start"
    /\ \E out \in AuthOutcomes :
          run' = [run EXCEPT ![r] =
                    IF out = "ok" THEN [@ EXCEPT !.pc = "list"]
                    ELSE IF out = "SystemExit" THEN terminate(@, "sys_exit")
                    ELSE terminate(@, "unexpected")]
    /\ UNCHANGED <<hostTz, mailbox, max_messages, calendar, subject, extracted>>

\* mutant: maxResults not passed on, every matching message returned
list_messages_unlimited(maxResults) == [k \in 1..Len(mailbox) |-> k]

\* messages().list(q=query, maxResults=max_messages): the identifiers (positions
\* in the mailbox) of at most maxResults matching messages
list_messages(maxResults) ==
    [k \in 1..(IF maxResults < Len(mailbox) THEN maxResults ELSE Len(mailbox)) |-> k]

\* get_confirmation_emails: the list it returns for an outcome of the call
get_confirmation_emails(out) == IF out = "ok" THEN list_messages(max_messages) ELSE <<>>

\* lines 313-319: the list call, the early return, the start of the loop
main_list(r) ==
    /\ run[r].pc = "list"
    /\ \E out \in CallOutcomes :
          LET called == [run[r] EXCEPT !.list_calls = @ + 1]
              messages == get_confirmation_emails(out)
          IN run' = [run EXCEPT ![r] =
                       IF out = "Exception" THEN terminate(called, "unexpected")
                       ELSE IF messages = <<>> THEN terminate(called, "no_messages")
                       ELSE [called EXCEPT !.messages = messages, !.events_created = 0,
                                           !.i = 1, !.pc = "fetch"]]
    /\ UNCHANGED <<hostTz, mailbox, max_messages, calendar, subject, extracted>>

\* lines 322-324: messages().get of the current message and the extraction
main_fetch(r) ==
    /\ run[r].pc = "fetch"
    /\ \E out \in CallOutcomes :
          LET called == [run[r] EXCEPT !.called = @ \cup {"messages.get"}]
              msg == mailbox[run[r].messages[run[r].i]]
          IN run' = [run EXCEPT ![r] =
                       IF out = "Exception" THEN terminate(called, "unexpected")
                       ELSE IF out = "HttpError" THEN next_message(called)
                       ELSE Bind(extract_event_details(msg).details, LAMBDA event_details :
                           IF event_details = <<>> THEN next_message(called)
                           ELSE [called EXCEPT !.event_details = event_details,
                                               !.pc = "check"])]
    /\ UNCHANGED <<hostTz, mailbox, max_messages, calendar, subject, extracted>>

\* events().list(timeMin, timeMax, q): the events that end after timeMin, start
\* before timeMax and whose text contains q
events_list(timeMin, timeMax, q) ==
    {k \in 1..Len(calendar) :
        /\ rfc3339_instant(calendar[k].end) > rfc3339_instant(timeMin)
        /\ rfc3339_instant(calendar[k].start) < rfc3339_instant(timeMax)
        /\ Find(calendar[k].summary, q) # 0}

\* mutant: timeMin and timeMax passed the wrong way round
check_existing_event_swapped(event_name, start_time_iso, end_time_iso) ==
    events_list(end_time_iso, start_time_iso, event_name)

check_existing_event(event_name, start_time_iso, end_time_iso) ==
    events_list(start_time_iso, end_time_iso, event_name)

\* lines 261-275 of create_calendar_event: the window, the duplicate query and
\* the `if existing_events` return
create_calendar_event_check(r) ==
    /\ run[r].pc = "check"
    /\ \E out \in CallOutcomes :
          LET called == [run[r] EXCEPT !.called = @ \cup {"events.list"}]
              details == run[r].event_details[1]
              asked(window, existing_events) ==
                  [message |-> run[r].i, q |-> details.event_name,
                   timeMin |-> window.start_time_iso, timeMax |-> window.end_time_iso,
                   items |-> Cardinality(existing_events), seen |-> Len(calendar)]
          IN run' = [run EXCEPT ![r] =
                       IF out = "Exception" THEN terminate(called, "unexpected")
                       ELSE IF out = "HttpError" THEN next_message(called)
                       ELSE Bind(event_window(details, hostTz), LAMBDA window :
                            Bind(check_existing_event(details.event_name,
                                     window.start_time_iso, window.end_time_iso),
                                 LAMBDA existing_events :
                           IF existing_events # {} THEN next_message(called)
                           ELSE [called EXCEPT !.query = <<asked(window, existing_events)>>,
                                               !.pc = "insert"]))]
    /\ UNCHANGED <<hostTz, mailbox, max_messages, calendar, subject, extracted>>

\* lines 277-291: the body of the event (by, seen: which run inserted it and how
\* many events the calendar held when that run made its duplicate query)
event_body(r, details, window) ==
    [summary |-> details.event_name,
     start |-> window.start_time_iso, end |-> window.end_time_iso,
     timeZone |-> "America/Chicago", attendees |-> <<"email1", "email2">>,
     by |-> <<r, run[r].run_no>>, seen |-> run[r].query[1].seen]

\* mutant: the count incremented whatever create_calendar_event returned
count_event_always(rec, out) == [rec EXCEPT !.events_created = @ + 1]

\* lines 325-327: `if event: events_created += 1`, event being None unless the
\* insert call returned
count_event(rec, out) ==
    IF out = "ok" THEN [rec EXCEPT !.events_created = @ + 1] ELSE rec

\* lines 293-299 and 325-327: events().insert and the count
create_calendar_event_insert(r) ==
    /\ run[r].pc = "insert"
    /\ \E out \in CallOutcomes :
          LET called == [run[r] EXCEPT !.called = @ \cup {"events.insert"}]
              details == run[r].event_details[1]
              event == Bind(event_window(details, hostTz), LAMBDA window :
                           event_body(r, details, window))
          IN /\ calendar' = IF out = "ok" THEN Append(calendar, event) ELSE calendar
             /\ run' = [run EXCEPT ![r] =
                          IF out = "Exception" THEN terminate(called, "unexpected")
                          ELSE next_message(count_event(called, out))]
    /\ UNCHANGED <<hostTz, mailbox, max_messages, subject, extracted>>

\* the program is started again after its run ended (same mailbox, same calendar)
run_again(r) ==
    /\ run[r].pc = "done"
    /\ run[r].run_no < MaxRuns
    /\ run' = [run EXCEPT ![r] = [NotStarted EXCEPT !.run_no = run[r].run_no + 1]]
    /\ UNCHANGED <<hostTz, mailbox, max_messages, calendar, subject, extracted>>

\* a step of main in program r
main(r) ==
    \/ authenticate_gmail_and_calendar(r)
    \/ main_list(r)
    \/ main_fetch(r)
    \/ create_calendar_event_check(r)
    \/ create_calendar_event_insert(r)

\* one program, run MaxRuns times one after another
Next == main(1) \/ run_again(1)

Spec == Init /\ [][Next]_vars

\* one run of the program.  Every call to a service returns or raises, so a
\* run that can step does.  (The host's time zone plays no part in how a run
\* ends: one zone is enough.)
InitFair == Init /\ hostTz = "America/Chicago"

NextFair == main(1)

SpecFair == InitFair /\ [][NextFair]_vars /\ WF_vars(NextFair)

\* two copies of the program, each run once, started independently of each
\* other against the same calendar
NextConcurrent == \E r \in Programs : main(r)

\* both copies run on one host and are given a limit that covers the mailbox
InitConcurrent == Init /\ max_messages = MaxMailbox /\ hostTz = "America/Chicago"

SpecConcurrent == InitConcurrent /\ [][NextConcurrent]_vars

(***************************************************************************)
(* The extraction and the window as pure functions: a subject line drawn   *)
(* from a set of lines, on a host in any of the host zones.                *)
(***************************************************************************)
YogaPadded == <<" ">> \o Yoga \o <<" ">>

YogaOnIce == <<"Y","o","g","a"," ","o","n"," ","I","c","e">>

LightsOn == <<"L","i","g","h","t","s"," ","o","n">>

\* one date in each accepted format, a summer date, and mixed case
SatFullAbbr == <<"S","a","t","u","r","d","a","y",","," ","J","a","n"," ","1","1",","," ","2","0","2","5"," ","9",":","0","0"," ","A","M">>

SatAbbrFull == <<"S","a","t",","," ","J","a","n","u","a","r","y"," ","1","1",","," ","2","0","2","5"," ","9",":","0","0"," ","A","M">>

JulyFourth == <<"F","r","i","d","a","y",","," ","J","u","l","y"," ","4",","," ","2","0","2","5"," ","6",":","3","0"," ","P","M">>

SundayLower == <<"s","u","n","d","a","y",","," "," ","N","O","V","E","M","B","E","R"," ","0","2",","," ","2","0","2","5"," ","1","2",":","0","5"," ","a","m">>

\* a name between line breaks and a vertical tab
YogaLines == <<"\r", "\n">> \o Yoga \o <<"\\x0b">>

\* a line feed and a narrow no-break space for blanks, the year in
\* Arabic-Indic digits
SatUnicode == <<"S","a","t","u","r","d","a","y",",","\n","J","a","n","u","a","r","y"," ","1","1",","," ","\\u0662","\\u0660","\\u0662","\\u0665"," ","9",":","0","0","\\u202f","A","M">>

\* a no-break space before the time and a line feed after it
SatLineFeed == <<"\\xa0">> \o SatFull \o <<"\n">>

\* the hour in Arabic-Indic digits: the pattern of %I takes 0-9 only
SatUnicodeHour == <<"S","a","t","u","r","d","a","y",","," ","J","a","n","u","a","r","y"," ","1","1",","," ","2","0","2","5"," ","\\u0669",":","0","0"," ","A","M">>

TemplateNames == {Yoga, YogaPadded, YogaLines, YogaOnIce, LightsOn, Kids, <<>>}

AcceptedTimes ==
    {SatFull, SatFullAbbr, SatAbbrFull, SatAbbr, JulyFourth, SundayLower,
     SatUnicode, SatLineFeed}

\* lines of the form Registration Confirmation: <name> on <time>
TemplateSubjects ==
    {[text |-> Marker \o n \o Separator \o tm, name |-> n, time |-> tm, template |-> TRUE] :
        n \in TemplateNames, tm \in AcceptedTimes}

Other(text) == [text |-> text, name |-> <<>>, time |-> <<>>, template |-> FALSE]

\* lines that depart from the template: no marker, no separator, a time no
\* format accepts, text around the template, the marker twice
OtherSubjects ==
    { Other(<<>>),
      Other(Yoga \o Separator \o SatFull),
      Other(Marker),
      Other(Marker \o <<"A","d","v","a","n","c","e","d"," ","C","l","a","s","s">>),
      Other(Marker \o Yoga \o <<" ","o","n">>),
      Other(Marker \o Yoga \o Separator \o <<"t","o","m","o","r","r","o","w">>),
      Other(Marker \o Yoga \o Separator \o SatUnicodeHour),
      Other(Marker \o Yoga \o <<"\n","o","n","\n">> \o SatFull),
      Other(Marker \o Yoga \o Separator \o <<"S","a","t","u","r","d","a","y",","," ","J","a","n","u","a","r","y"," ","3","2",","," ","2","0","2","5"," ","9",":","0","0"," ","A","M">>),
      Other(Marker \o Yoga \o Separator \o <<"S","a","t","u","r","d","a","y"," ","J","a","n","u","a","r","y"," ","1","1",","," ","2","0","2","5"," ","9",":","0","0"," ","A","M">>),
      Other(Marker \o Yoga \o Separator \o SatFull \o Separator),
      Other(Marker \o Yoga \o Separator \o <<"o","n"," ">> \o SatFull),
      Other(<<"F","w","d",":"," ">> \o Marker \o Yoga \o Separator \o SatAbbr),
      Other(Marker \o Marker \o Yoga \o Separator \o SatAbbr),
      Other(Marker \o Yoga \o Separator \o SatAbbr \o <<" ">> \o Marker \o Kids \o Separator \o SatHalf),
      Other(Marker \o Yoga \o <<" ">> \o Marker \o Kids \o Separator \o SatHalf),
      Other(<<"F","w","d",":"," ">> \o Marker \o <<"A","d","v","a","n","c","e","d"," ","C","l","a","s","s">> \o <<" ">> \o Marker \o Kids \o Separator \o SatHalf) }

Subjects == TemplateSubjects \cup OtherSubjects

InitExtract ==
    /\ hostTz \in HostZones
    /\ subject \in Subjects
    /\ extracted = <<>>
    /\ mailbox = <<>>
    /\ max_messages = 0
    /\ calendar = <<>>
    /\ run = [r \in Programs |-> NotStarted]

\* lines 323-325 and 261-269 on one message: the extraction and, when it
\* returns details, the window create_calendar_event computes from them
extract_and_window ==
    /\ extracted = <<>>
    /\ \E result \in {extract_event_details(Message(subject.text))} :
          extracted' = << [result |-> result,
                           window |-> IF result.details = <<>> THEN <<>>
                                      ELSE <<event_window(result.details[1], hostTz)>>] >>
    /\ UNCHANGED <<hostTz, mailbox, max_messages, calendar, run, subject>>

NextExtract == extract_and_window

SpecExtract == InitExtract /\ [][NextExtract]_vars

(***************************************************************************)
(* Properties.                                                             *)
(***************************************************************************)
SameEvent(a, b) == a.summary = b.summary /\ a.start = b.start /\ a.end = b.end

Duplicates == {jk \in (1..Len(calendar)) \X (1..Len(calendar)) :
                  jk[1] < jk[2] /\ SameEvent(calendar[jk[1]], calendar[jk[2]])}

\* C1: over runs executed one after another against the same calendar, the
\* calendar never holds two events with the same name and the same
\* start/end window.
C1_AtMostOnce == Duplicates = {}

\* C1 witness: the same single message processed by a first and a second run;
\* the first run created the event, the second run created none.
C1_Witness ==
    /\ Len(mailbox) = 1
    /\ Len(calendar) = 1 /\ calendar[1].by = <<1, 1>>
    /\ run[1].run_no = 2 /\ run[1].pc = "done" /\ run[1].exit = "completed"
    /\ run[1].summary = <<0>>

\* C2 (as claimed): a run that was given a non-empty list of messages ends only
\* after it has gone through every message of the list, whatever failed on
\* the way.
C2_FailureIsolated ==
    (run[1].pc = "done" /\ run[1].messages # <<>>)
        => (run[1].i > Len(run[1].messages) /\ run[1].exit = "completed")

\* C3: every insert call is made for a message whose duplicate query was made
\* with the event's name and the window [start, start + 1 hour) of the very
\* event inserted, and returned nothing; a duplicate query that finds an event
\* is followed by no insert for that message and leaves the count and the
\* calendar as they were.
C3_InsertGuard ==
    [][\A r \in Programs :
        /\ (run[r].pc = "insert" /\ run'[r] # run[r]) =>
              /\ run[r].query # <<>>
              /\ run[r].query[1].message = run[r].i
              /\ run[r].query[1].items = 0
              /\ run[r].query[1].q = run[r].event_details[1].event_name
              /\ rfc3339_instant(run[r].query[1].timeMax)
                    = rfc3339_instant(run[r].query[1].timeMin) + 60
              /\ calendar' # calendar =>
                    /\ calendar'[Len(calendar')].summary = run[r].query[1].q
                    /\ calendar'[Len(calendar')].start = run[r].query[1].timeMin
                    /\ calendar'[Len(calendar')].end = run[r].query[1].timeMax
        /\ (/\ run[r].pc = "check" /\ run'[r] # run[r]
            /\ \E k \in 1..Len(calendar) :
                  /\ Find(calendar[k].summary, run[r].event_details[1].event_name) # 0
                  /\ calendar[k].start
                        = event_window(run[r].event_details[1], hostTz).start_time_iso) =>
              /\ run'[r].pc # "insert"
              /\ run'[r].events_created = run[r].events_created
              /\ calendar' = calendar
    ]_vars

\* C3 witness: an insert is about to be made, after an empty duplicate query,
\* into a calendar that already holds an event (of another name).
C3_Witness ==
    /\ run[1].pc = "insert" /\ run[1].query # <<>> /\ run[1].query[1].items = 0
    /\ calendar # <<>>

\* C4 (as claimed): whenever a run has ended, the summary count was reported.
C4_SummaryAlways == run[1].pc = "done" => run[1].summary # <<>>

\* C4 (amended): every run ends, and a run that has ended reported the summary
\* count (the number of events it created) exactly if it went through the whole
\* message loop; a run that ended early reported none.
C4_EndsAndReportsIffCompleted ==
    /\ (run[1].pc # "done") ~> (run[1].pc = "done")
    /\ [](run[1].pc = "done" =>
            /\ run[1].summary # <<>> <=> run[1].exit = "completed"
            /\ run[1].summary # <<>> => run[1].summary = <<run[1].events_created>>)

\* C4 witness: a run ended early on an unexpected exception after it had
\* created an event, and reported no count.
C4_Witness ==
    /\ run[1].pc = "done" /\ run[1].exit = "unexpected"
    /\ run[1].events_created = 1 /\ run[1].summary = <<>>

InsertedBy(r) == {k \in 1..Len(calendar) : calendar[k].by = <<r, run[r].run_no>>}

\* C5: at every point of a run the count of events created equals the number
\* of events this run has inserted so far, and never exceeds the number of
\* message identifiers the list call returned; the reported count is that count.
C5_CountAccurate ==
    /\ run[1].events_created = Cardinality(InsertedBy(1))
    /\ run[1].events_created <= Len(run[1].messages)
    /\ run[1].summary # <<>> => run[1].summary = <<Cardinality(InsertedBy(1))>>

\* C5 witness: a run over two messages ended having created one event and
\* skipped the other message.
C5_Witness ==
    /\ run[1].pc = "done" /\ run[1].exit = "completed"
    /\ Len(run[1].messages) = 2 /\ run[1].summary = <<1>>

\* the text after the first occurrence of the marker
AfterMarker(text) == Tail_from(text, Find(text, Marker) + Len(Marker))

\* that text up to the next occurrence of the marker, if there is one
FirstSegment(text) ==
    IF Find(AfterMarker(text), Marker) = 0 THEN AfterMarker(text)
    ELSE SubSeq(AfterMarker(text), 1, Find(AfterMarker(text), Marker) - 1)

RECURSIVE CountSeparators(_)
\* occurrences of " on " counted from the left without overlap
CountSeparators(s) ==
    IF Find(s, Separator) = 0 THEN 0
    ELSE 1 + CountSeparators(Tail_from(s, Find(s, Separator) + Len(Separator)))

\* C6 (as claimed): a subject line without the marker, or whose text after the
\* first occurrence of the marker does not contain " on " exactly once, yields
\* an error and no event details.
C6_FailClosedOnRemainder ==
    (/\ extracted # <<>>
     /\ \/ Find(subject.text, Marker) = 0
        \/ Cardinality(Occurrences(AfterMarker(subject.text), Separator)) # 1)
        => (extracted[1].result.details = <<>> /\ extracted[1].result.err # "none")

\* C6 (amended): a subject line without the marker, or whose text between the
\* first occurrence of the marker and the next one (or the end of the line)
\* does not contain " on " exactly once, counted from the left without
\* overlap, yields no event details and no window: the function reports the
\* missing subject (empty line), the missing marker or the missing separator.
C6_FailClosedOnFirstSegment ==
    (/\ extracted # <<>>
     /\ \/ Find(subject.text, Marker) = 0
        \/ CountSeparators(FirstSegment(subject.text)) # 1)
        => /\ extracted[1].result.details = <<>>
           /\ extracted[1].window = <<>>
           /\ extracted[1].result.err =
                 IF subject.text = <<>> THEN "NoSubject"
                 ELSE IF Find(subject.text, Marker) = 0 THEN "NoMarker"
                 ELSE "NoSeparator"

\* C6 witness: a line with the marker and two separators after it was
\* rejected for its separators.
C6_Witness ==
    /\ extracted # <<>>
    /\ Find(subject.text, Marker) # 0
    /\ CountSeparators(FirstSegment(subject.text)) = 2
    /\ extracted[1].result.err = "NoSeparator"

Recovered ==
    /\ extracted[1].result.err = "none"
    /\ extracted[1].result.gcal_event_name = Strip(subject.name)
    /\ extracted[1].result.gcal_event_time = Strip(subject.time)
    /\ extracted[1].result.details # <<>>
    /\ extracted[1].result.details[1].event_name = Strip(subject.name)

\* C7 (as claimed): for every line Registration Confirmation: <name> on <time>
\* with <time> in an accepted format, the extraction succeeds with the name
\* and the time string as written, trimmed.
C7_TemplateRecovered == (extracted # <<>> /\ subject.template) => Recovered

\* C7 (amended): the same, for the lines in which the text "<name> on <time>"
\* does not contain the marker and contains " on " at one position only.
C7_TemplateRecoveredOneSeparator ==
    (/\ extracted # <<>> /\ subject.template
     /\ Find(subject.name \o Separator \o subject.time, Marker) = 0
     /\ Cardinality(Occurrences(subject.name \o Separator \o subject.time, Separator)) = 1)
        => Recovered

\* C7 witness: a template line whose name is written with surrounding blanks
\* and whose time uses abbreviated day and month was recovered.
C7_Witness ==
    /\ extracted # <<>> /\ subject.template
    /\ subject.name = YogaPadded /\ subject.time = SatAbbr
    /\ Recovered

\* C8: with max_messages = 0 a run makes the list call at most once, and
\* exactly once when it ends on the empty list; it fetches no message, makes
\* no calendar query and no insert, creates no event and never enters the loop.
C8_ZeroLimit ==
    max_messages = 0 =>
        /\ run[1].called = {}
        /\ run[1].list_calls <= 1
        /\ run[1].pc \in {"start", "list", "done"}
        /\ run[1].pc = "done" =>
              /\ run[1].exit \in {"no_messages", "unexpected", "sys_exit"}
              /\ run[1].exit = "no_messages" => run[1].list_calls = 1
        /\ run[1].events_created = 0
        /\ calendar = <<>>

\* C8 witness: a run with max_messages = 0 over a mailbox that holds messages
\* ended on the empty list after one list call.
C8_Witness ==
    /\ max_messages = 0 /\ mailbox # <<>>
    /\ run[1].pc = "done" /\ run[1].exit = "no_messages" /\ run[1].list_calls = 1

\* C9: with two copies of the program running at once, two events of the same
\* name and window are in the calendar only as the outcome of the race: they
\* were inserted by different copies, and the later one was inserted by a
\* copy whose duplicate query was made before the earlier one was inserted.
C9_DuplicatesOnlyByRace ==
    \A jk \in Duplicates :
        /\ calendar[jk[1]].by # calendar[jk[2]].by
        /\ calendar[jk[2]].seen < jk[1]

\* C9 witness: the race happened; the calendar holds the same event twice.
C9_Witness == Duplicates # {}

\* C10 (as claimed): the start of the window is the time written in the
\* subject line, read as wall-clock time in America/Chicago, on every host, and
\* the end is one hour after the start.
C10_WallClockKept ==
    (extracted # <<>> /\ extracted[1].window # <<>>) =>
        /\ SubSeq(extracted[1].window[1].start_time_iso, 1, 19)
              = extracted[1].result.details[1].event_time
        /\ rfc3339_instant(extracted[1].window[1].end_time_iso)
              = rfc3339_instant(extracted[1].window[1].start_time_iso) + 60

====
